---- MODULE Spec2Model ----
(***************************************************************************)
(* Room synchronisation and playlist coordination engine of the           *)
(* listening-together server: the Room aggregate (models/Room.js), the    *)
(* RoomManager registry, the SyncService time handling and the            *)
(* SocketHandlers dispatcher.                                             *)
(*                                                                        *)
(* Times.  Date.now() is in milliseconds and Room.currentTime in seconds; *)
(* the model holds every time in milliseconds (a currentTime of 2 s is    *)
(* the integer 2000), so that (now - lastUpdate) / 1000 stays exact.      *)
(*                                                                        *)
(* Identity.  Connections authenticate in SpecAuth only; in the other     *)
(* specifications authenticatedUsers stays empty, userInfo is undefined   *)
(* at every join and every participant is a guest.  Participants leave    *)
(* out avatar and joinedAt, entries leave out addedAt, rooms leave out    *)
(* id, volume and createdAt: no handler reads them.                       *)
(***************************************************************************)
EXTENDS Integers, Sequences, FiniteSets, TLC

(* ------------------------------ bounds -------------------------------- *)

\* number of uuids the generator hands out in one run
MaxIds == 3

\* number of clock advances in one run
MaxTicks == 1

\* longest reorder-playlist payload a client submits
MaxPayload == 2

\* number of client events the dispatcher handles in one run
MaxEvents == 4

(* ------------------------------ universe ------------------------------ *)

\* the socket ids the transport assigns, in the order it assigns them
SocketIds == << "s1", "s2", "s3" >>

Sockets == {SocketIds[i] : i \in DOMAIN SocketIds}

RoomIds == {"A", "B"}

\* the media items clients add
Videos == {"x"}

\* the media items a client writes into the entries of a reorder payload
PayloadVideos == {"x", "y"}

\* time payloads of seek and time-update, in ms (-1 s, 2 s)
ClientTimes == {-1000, 2000}

\* the amounts by which the clock advances between two events, in ms
ClockSteps == {1000}

\* the delay of the one-shot sync of a new participant, in ms
SyncDelay == 1000

\* config.sync.syncThresholds.periodic (4 s), in ms
PeriodicTolerance == 4000

Null == "null"

\* the value of Room.currentVideo when it is null
NullVideo == [id |-> 0, video |-> Null, addedBy |-> Null]

VARIABLES
  rooms,        \* RoomManager.rooms: Map roomId -> Room
  currentRoom,  \* the closure variable currentRoom of each connection
  connected,    \* connections whose socket is open
  closed,       \* connections whose socket has disconnected
  subs,         \* socket.io broadcast groups each socket has joined
  uuids,        \* number of ids uuidv4() has produced
  now,          \* Date.now()
  out,          \* the emissions of the last handled event, in order
  last,         \* the last handled event and its outcome
  timers,       \* the pending setTimeout callbacks, in the order they were set
  events,       \* number of client events handled so far
  syncInterval, \* SyncService.syncInterval is set: the periodic sync runs
  authenticatedUsers, \* SocketHandlers.authenticatedUsers: Map socketId -> userInfo
  pendingAuth,  \* the verifyToken calls that wait for the identity provider
  player        \* one client: its player, its syncTime and its seekTo calls

vars == <<rooms, currentRoom, connected, closed, subs, uuids, now, out, last,
          timers, events, syncInterval, authenticatedUsers, pendingAuth, player>>

(* ------------------------------ Room ---------------------------------- *)

\* Room constructor
NewRoom(t) ==
  [ playlist            |-> << >>,
    currentVideo        |-> NullVideo,
    currentTime         |-> 0,
    isPlaying           |-> FALSE,
    participants        |-> << >>,
    owner               |-> Null,
    playlistPermissions |-> {},
    lastUpdate          |-> t ]

\* `Guest-${socketId.slice(-6)}`
GuestName(socketId) == "Guest-" \o socketId

\* fault: a connection without identity gets a made-up user instead of none
NoUserAnonymous == [username |-> "anonymous", sub |-> Null]

\* the userInfo of a connection that has none (undefined)
NoUser == [username |-> Null, sub |-> Null]

\* userInfo?.username || ... || `Guest-...`
DisplayName(socketId, userInfo) ==
  IF userInfo.username # Null THEN userInfo.username ELSE GuestName(socketId)

\* this.participants.has(socketId)
HasParticipant(room, socketId) ==
  \E i \in DOMAIN room.participants : room.participants[i].socketId = socketId

\* this.participants.size
ParticipantCount(room) == Len(room.participants)

\* Map.get on the participants map
getParticipant(room, socketId) ==
  LET i == CHOOSE j \in DOMAIN room.participants :
                room.participants[j].socketId = socketId
  IN room.participants[i]

\* Map.set on the participants map: a present key keeps its position
SetParticipant(parts, p) ==
  IF \E i \in DOMAIN parts : parts[i].socketId = p.socketId
  THEN [i \in DOMAIN parts |->
          IF parts[i].socketId = p.socketId THEN p ELSE parts[i]]
  ELSE Append(parts, p)

\* fault: every joiner is made owner, the size check is missing
addParticipantEveryoneOwns(room, socketId, userInfo) ==
  LET participant == [ socketId              |-> socketId,
                       username              |-> DisplayName(socketId, userInfo),
                       userId                |-> userInfo.sub,
                       isOwner               |-> TRUE,
                       hasPlaylistPermission |-> TRUE ]
  IN [ room EXCEPT
         !.owner = socketId,
         !.playlistPermissions = @ \cup {socketId},
         !.participants = SetParticipant(@, participant) ]

\* Room.addParticipant
addParticipant(room, socketId, userInfo) ==
  LET first == ParticipantCount(room) = 0
      participant == [ socketId              |-> socketId,
                       username              |-> DisplayName(socketId, userInfo),
                       userId                |-> userInfo.sub,
                       isOwner               |-> first,
                       hasPlaylistPermission |-> first ]
  IN [ room EXCEPT
         !.owner = IF first THEN socketId ELSE @,
         !.playlistPermissions = IF first THEN @ \cup {socketId} ELSE @,
         !.participants = SetParticipant(@, participant) ]

\* fault: the new owner is named but is not given the playlist permission
removeParticipantOwnerOnly(room, socketId) ==
  IF ~HasParticipant(room, socketId)
  THEN [room |-> room, removed |-> FALSE]
  ELSE
    LET rest  == SelectSeq(room.participants,
                           LAMBDA p : p.socketId # socketId)
        perms == room.playlistPermissions \ {socketId}
    IN IF room.owner = socketId /\ Len(rest) > 0
       THEN [ room |-> [ room EXCEPT
                  !.participants = [rest EXCEPT ![1] =
                       [@ EXCEPT !.isOwner = TRUE]],
                  !.owner = rest[1].socketId,
                  !.playlistPermissions = perms ],
              removed |-> TRUE ]
       ELSE [ room |-> [ room EXCEPT !.participants = rest,
                                     !.playlistPermissions = perms ],
              removed |-> TRUE ]

\* fault: ownership passes to the participant that joined last
removeParticipantLastJoinedOwns(room, socketId) ==
  IF ~HasParticipant(room, socketId)
  THEN [room |-> room, removed |-> FALSE]
  ELSE
    LET rest  == SelectSeq(room.participants,
                           LAMBDA p : p.socketId # socketId)
        perms == room.playlistPermissions \ {socketId}
    IN IF room.owner = socketId /\ Len(rest) > 0
       THEN [ room |-> [ room EXCEPT
                  !.participants = [rest EXCEPT ![Len(rest)] =
                       [@ EXCEPT !.isOwner = TRUE,
                                 !.hasPlaylistPermission = TRUE]],
                  !.owner = rest[Len(rest)].socketId,
                  !.playlistPermissions = perms \cup {rest[Len(rest)].socketId} ],
              removed |-> TRUE ]
       ELSE [ room |-> [ room EXCEPT !.participants = rest,
                                     !.playlistPermissions = perms ],
              removed |-> TRUE ]

\* Room.removeParticipant.  values().next().value is the first remaining
\* participant in insertion order and is never undefined when size > 0, so
\* the branch that sets owner to null is unreachable.
removeParticipant(room, socketId) ==
  IF ~HasParticipant(room, socketId)
  THEN [room |-> room, removed |-> FALSE]
  ELSE
    LET rest  == SelectSeq(room.participants,
                           LAMBDA p : p.socketId # socketId)
        perms == room.playlistPermissions \ {socketId}
    IN IF room.owner = socketId /\ Len(rest) > 0
       THEN [ room |-> [ room EXCEPT
                  !.participants = [rest EXCEPT ![1] =
                       [@ EXCEPT !.isOwner = TRUE,
                                 !.hasPlaylistPermission = TRUE]],
                  !.owner = rest[1].socketId,
                  !.playlistPermissions = perms \cup {rest[1].socketId} ],
              removed |-> TRUE ]
       ELSE [ room |-> [ room EXCEPT !.participants = rest,
                                     !.playlistPermissions = perms ],
              removed |-> TRUE ]

\* Room.hasPlaylistPermission
hasPlaylistPermission(room, socketId) ==
  socketId \in room.playlistPermissions

\* fault: every participant passes the owner check
isOwnerAnyParticipant(room, socketId) == HasParticipant(room, socketId)

\* Room.isOwner
isOwner(room, socketId) == room.owner = socketId

\* Room.isEmpty
isEmpty(room) == ParticipantCount(room) = 0

(* ---------------------------- RoomManager ----------------------------- *)

\* RoomManager.getRoom(roomId) is not null
RoomExists(rs, roomId) == roomId \in DOMAIN rs

\* Map.set on the registry
PutRoom(rs, roomId, room) ==
  [r \in DOMAIN rs \cup {roomId} |-> IF r = roomId THEN room ELSE rs[r]]

\* Map.delete on the registry
DeleteRoom(rs, roomId) == [r \in DOMAIN rs \ {roomId} |-> rs[r]]

\* RoomManager.getOrCreateRoom
getOrCreateRoom(rs, roomId, t) ==
  IF roomId \in DOMAIN rs THEN rs ELSE PutRoom(rs, roomId, NewRoom(t))

\* fault: an empty room is left in the registry
cleanupRoomKeepsRoom(rs, roomId) == rs

\* RoomManager.cleanupRoom
cleanupRoom(rs, roomId) ==
  IF roomId \in DOMAIN rs /\ isEmpty(rs[roomId])
  THEN DeleteRoom(rs, roomId) ELSE rs

\* RoomManager.addParticipantToRoom
addParticipantToRoom(rs, roomId, socketId, userInfo, t) ==
  LET rs1 == getOrCreateRoom(rs, roomId, t)
  IN PutRoom(rs1, roomId, addParticipant(rs1[roomId], socketId, userInfo))

\* RoomManager.removeParticipantFromRoom
removeParticipantFromRoom(rs, roomId, socketId) ==
  IF ~RoomExists(rs, roomId)
  THEN [rooms |-> rs, removed |-> FALSE]
  ELSE LET r == removeParticipant(rs[roomId], socketId)
       IN IF r.removed
          THEN [ rooms   |-> cleanupRoom(PutRoom(rs, roomId, r.room), roomId),
                 removed |-> TRUE ]
          ELSE [rooms |-> rs, removed |-> FALSE]

(* ------------------------------ emissions ----------------------------- *)

\* the sockets subscribed to a socket.io room: io.to(roomId)
Group(sb, roomId) == {s \in Sockets : roomId \in sb[s]}

\* io.to(socketId): every open socket is alone in the group of its own id
Private(socketId) == IF socketId \in connected THEN {socketId} ELSE {}

\* one emit: the event, the sockets it is delivered to, and its payload
Emit(ev, to, data) == [ev |-> ev, to |-> to, data |-> data]

\* the outcome of a handler: the event, its sender, the room the sender is
\* in after it, the result, and, as the handler found them, the sender's
\* currentRoom and the owner of that room
Outcome(ev, socketId, roomId, res) ==
  [ ev   |-> ev,
    sock |-> socketId,
    room |-> roomId,
    res  |-> res,
    from |-> currentRoom[socketId],
    ownerBefore |-> IF currentRoom[socketId] \in DOMAIN rooms
                    THEN rooms[currentRoom[socketId]].owner ELSE Null ]

(* ------------------------ Room: permissions --------------------------- *)

\* update of one participant object held by the participants map
UpdateParticipant(parts, socketId, flag) ==
  [i \in DOMAIN parts |->
     IF parts[i].socketId = socketId
     THEN [parts[i] EXCEPT !.hasPlaylistPermission = flag]
     ELSE parts[i]]

\* fault: the permission is recorded for a socket that is not in the room
grantPlaylistPermissionAnyone(room, socketId) ==
  [ room |-> [ room EXCEPT
        !.participants = UpdateParticipant(@, socketId, TRUE),
        !.playlistPermissions = @ \cup {socketId} ],
    success |-> TRUE ]

\* fault: the grant hands the room over to the participant it names
grantPlaylistPermissionHandsOver(room, socketId) ==
  IF ~HasParticipant(room, socketId)
  THEN [room |-> room, success |-> FALSE]
  ELSE [ room |-> [ room EXCEPT
              !.participants = UpdateParticipant(@, socketId, TRUE),
              !.playlistPermissions = @ \cup {socketId},
              !.owner = socketId ],
         success |-> TRUE ]

\* Room.grantPlaylistPermission
grantPlaylistPermission(room, socketId) ==
  IF ~HasParticipant(room, socketId)
  THEN [room |-> room, success |-> FALSE]
  ELSE [ room |-> [ room EXCEPT
              !.participants = UpdateParticipant(@, socketId, TRUE),
              !.playlistPermissions = @ \cup {socketId} ],
         success |-> TRUE ]

\* Room.revokePlaylistPermission
revokePlaylistPermission(room, socketId) ==
  IF ~HasParticipant(room, socketId) \/ getParticipant(room, socketId).isOwner
  THEN [room |-> room, success |-> FALSE]
  ELSE [ room |-> [ room EXCEPT
              !.participants = UpdateParticipant(@, socketId, FALSE),
              !.playlistPermissions = @ \ {socketId} ],
         success |-> TRUE ]

(* ------------------------ Room: playlist ------------------------------ *)

\* uuidv4(): a value that no earlier call returned
uuidv4 == uuids + 1

\* fault: the entry id is the position in the queue, not the uuid
addVideoPositionalId(room, video, addedBy, id) ==
  LET videoWithId ==
        [ id      |-> Len(room.playlist) + 1,
          video   |-> video,
          addedBy |-> IF HasParticipant(room, addedBy)
                      THEN getParticipant(room, addedBy).username
                      ELSE "Unknown" ]
  IN [ room  |-> [room EXCEPT !.playlist = Append(@, videoWithId)],
       video |-> videoWithId ]

\* Room.addVideo
addVideo(room, video, addedBy, id) ==
  LET videoWithId ==
        [ id      |-> id,
          video   |-> video,
          addedBy |-> IF HasParticipant(room, addedBy)
                      THEN getParticipant(room, addedBy).username
                      ELSE "Unknown" ]
  IN [ room  |-> [room EXCEPT !.playlist = Append(@, videoWithId)],
       video |-> videoWithId ]

\* Room.removeVideo
removeVideo(room, videoId) ==
  LET kept == SelectSeq(room.playlist, LAMBDA v : v.id # videoId)
  IN [ room    |-> [room EXCEPT !.playlist = kept],
       removed |-> Len(kept) # Len(room.playlist) ]

\* fault: on an empty queue the current item is cleared but the room is
\* left playing
playNextStaysPlaying(room, t) ==
  IF Len(room.playlist) > 0
  THEN [ room |-> [ room EXCEPT !.currentVideo = Head(room.playlist),
                                !.playlist     = Tail(room.playlist),
                                !.currentTime  = 0,
                                !.isPlaying    = TRUE,
                                !.lastUpdate   = t ],
         next |-> Head(room.playlist) ]
  ELSE [ room |-> [ room EXCEPT !.currentVideo = NullVideo,
                                !.currentTime  = 0 ],
         next |-> NullVideo ]

\* fault: the head of the queue is read but not taken out of it
playNextKeepsQueue(room, t) ==
  IF Len(room.playlist) > 0
  THEN [ room |-> [ room EXCEPT !.currentVideo = Head(room.playlist),
                                !.currentTime  = 0,
                                !.isPlaying    = TRUE,
                                !.lastUpdate   = t ],
         next |-> Head(room.playlist) ]
  ELSE [ room |-> [ room EXCEPT !.currentVideo = NullVideo,
                                !.isPlaying    = FALSE,
                                !.currentTime  = 0 ],
         next |-> NullVideo ]

\* Room.playNext
playNext(room, t) ==
  IF Len(room.playlist) > 0
  THEN [ room |-> [ room EXCEPT !.currentVideo = Head(room.playlist),
                                !.playlist     = Tail(room.playlist),
                                !.currentTime  = 0,
                                !.isPlaying    = TRUE,
                                !.lastUpdate   = t ],
         next |-> Head(room.playlist) ]
  ELSE [ room |-> [ room EXCEPT !.currentVideo = NullVideo,
                                !.isPlaying    = FALSE,
                                !.currentTime  = 0 ],
         next |-> NullVideo ]

\* new Set(list.map(v => v.id))
IdSet(list) == {list[i].id : i \in DOMAIN list}

\* Room.reorderPlaylist
reorderPlaylist(room, newPlaylist) ==
  LET existingIds == IdSet(room.playlist)
      newIds      == IdSet(newPlaylist)
  IN IF Cardinality(existingIds) = Cardinality(newIds)
        /\ \A id \in existingIds : id \in newIds
     THEN [room |-> [room EXCEPT !.playlist = newPlaylist], success |-> TRUE]
     ELSE [room |-> room, success |-> FALSE]

(* ------------------------ Room: playback state ------------------------ *)

\* fault: the time is stored but lastUpdate is not stamped
updateStateTimeNoStamp(room, time, t) ==
  [room EXCEPT !.currentTime = time]

\* Room.updateState({ currentTime })
updateStateTime(room, time, t) ==
  [room EXCEPT !.currentTime = time, !.lastUpdate = t]

\* Room.updateState({ isPlaying })
updateStatePlaying(room, playing, t) ==
  [room EXCEPT !.isPlaying = playing, !.lastUpdate = t]

Max(a, b) == IF a >= b THEN a ELSE b

\* the currentTime of Room.getState() read at clock time t
AdjustedTime(room, t) ==
  IF room.isPlaying /\ room.currentVideo # NullVideo
  THEN Max(0, room.currentTime + (t - room.lastUpdate))
  ELSE room.currentTime

\* Room.getState
getState(room, t) ==
  [ currentVideo     |-> room.currentVideo,
    currentTime      |-> AdjustedTime(room, t),
    isPlaying        |-> room.isPlaying,
    playlist         |-> room.playlist,
    participants     |-> room.participants,
    participantCount |-> ParticipantCount(room),
    owner            |-> room.owner,
    lastUpdate       |-> room.lastUpdate ]

(* ------------------------------ Init ---------------------------------- *)

InitServer ==
  /\ rooms = [r \in {} |-> NewRoom(0)]
  /\ currentRoom = [s \in Sockets |-> Null]
  /\ connected = {}
  /\ closed = {}
  /\ subs = [s \in Sockets |-> {}]
  /\ uuids = 0
  /\ now = 0
  /\ out = << >>
  /\ last = [ ev |-> "none", sock |-> Null, room |-> Null, res |-> "none",
              from |-> Null, ownerBefore |-> Null ]
  /\ timers = << >>
  /\ events = 0
  /\ syncInterval = TRUE
  /\ authenticatedUsers = [s \in {} |-> NoUser]
  /\ pendingAuth = {}

\* useState(null) of syncTime: no sync is asked for
NoSync == [time |-> 0, type |-> "none", tolerance |-> 0]

\* the server, with a client whose player has not loaded and is left alone
Init ==
  /\ InitServer
  /\ player = [ playerReady |-> FALSE, currentTime |-> 0,
                syncTime |-> NoSync, seekTo |-> << >> ]

\* a handler has thrown.  Nothing catches it (no try in the handlers, no
\* uncaughtException listener in server.js): the process has exited
Crashed == last.res = "threw"

\* the process runs: after gracefulShutdown, server.close calls process.exit
\* once the last connection has ended (the forced exit comes 10 s after the
\* shutdown, later than the clock of a run goes)
Alive == ~Crashed /\ (syncInterval \/ connected # {})

\* what a handler leaves behind: the registry, its emissions, its outcome
Respond(rs, msgs, outcome) ==
  /\ ~Crashed
  /\ events < MaxEvents
  /\ events' = events + 1
  /\ rooms' = rs
  /\ out' = msgs
  /\ last' = outcome

\* the broadcasts that follow the removal of a participant from a room
LeftNotice(rs, roomId, to) ==
  IF RoomExists(rs, roomId)
  THEN << Emit("participant-left", to, ParticipantCount(rs[roomId])),
          Emit("permissions-updated", to, rs[roomId].participants) >>
  ELSE << >>

(* ----------------- SocketHandlers: rooms and permissions -------------- *)

\* io.on('connection'): handleConnection registers the handlers of a new
\* socket, whose currentRoom starts null.  The transport hands out the
\* socket ids in order, and connections arrive one at a time: the next one
\* arrives once the previous one has joined a room or has gone.  After
\* gracefulShutdown the server has stopped listening and none arrives.
handleConnection(s) ==
  /\ ~Crashed
  /\ syncInterval
  /\ s \notin connected \cup closed
  /\ \A i, j \in DOMAIN SocketIds :
        (i < j /\ SocketIds[j] = s)
          => (currentRoom[SocketIds[i]] # Null \/ SocketIds[i] \in closed)
  /\ connected' = connected \cup {s}
  /\ currentRoom' = [currentRoom EXCEPT ![s] = Null]
  /\ UNCHANGED <<rooms, closed, subs, uuids, now, out, last, timers, events,
               syncInterval,
                    authenticatedUsers, pendingAuth, player>>

\* fault: the check of currentVideo and isPlaying is missing
syncNewParticipantAlways(socketId, currentState) ==
  << [ socketId  |-> socketId,
       time      |-> currentState.currentTime,
       isPlaying |-> currentState.isPlaying,
       due       |-> now + SyncDelay ] >>

\* SyncService.syncNewParticipant: the timeouts it sets.  The callback keeps
\* the state that was read at the join.
syncNewParticipant(socketId, currentState) ==
  IF currentState.currentVideo = NullVideo \/ ~currentState.isPlaying
  THEN << >>
  ELSE << [ socketId  |-> socketId,
            time      |-> currentState.currentTime,
            isPlaying |-> currentState.isPlaying,
            due       |-> now + SyncDelay ] >>

\* socket.on(JOIN_ROOM): handleJoinRoom, then currentRoom = roomId
handleJoinRoom(s, newRoomId) ==
  LET cur  == currentRoom[s]
      sb1  == IF cur # Null THEN [subs EXCEPT ![s] = @ \ {cur}] ELSE subs
      rem  == IF cur # Null
              THEN removeParticipantFromRoom(rooms, cur, s)
              ELSE [rooms |-> rooms, removed |-> FALSE]
      left == IF rem.removed
              THEN LeftNotice(rem.rooms, cur, Group(sb1, cur) \ {s})
              ELSE << >>
      sb2  == [sb1 EXCEPT ![s] = @ \cup {newRoomId}]
      userInfo == IF s \in DOMAIN authenticatedUsers
                  THEN authenticatedUsers[s] ELSE NoUser
      rs2  == addParticipantToRoom(rem.rooms, newRoomId, s, userInfo, now)
      room == rs2[newRoomId]
      to   == Group(sb2, newRoomId)
  IN /\ s \in connected
     /\ subs' = sb2
     /\ timers' = timers \o syncNewParticipant(s, getState(room, now))
     /\ currentRoom' = [currentRoom EXCEPT ![s] = newRoomId]
     /\ Respond(rs2,
                left \o << Emit("room-state", {s}, getState(room, now)),
                           Emit("participant-joined", to, ParticipantCount(room)),
                           Emit("permissions-updated", to, room.participants) >>,
                Outcome("join-room", s, newRoomId,
                        IF RoomExists(rem.rooms, newRoomId)
                        THEN "joined" ELSE "created"))
     /\ UNCHANGED <<connected, closed, uuids, now, syncInterval,
                    authenticatedUsers, pendingAuth, player>>

\* handleDisconnect; socket.io has taken the socket out of its groups
handleDisconnect(s) ==
  LET cur == currentRoom[s]
      sb1 == [subs EXCEPT ![s] = {}]
      rem == IF cur # Null
             THEN removeParticipantFromRoom(rooms, cur, s)
             ELSE [rooms |-> rooms, removed |-> FALSE]
  IN /\ s \in connected
     /\ connected' = connected \ {s}
     /\ closed' = closed \cup {s}
     /\ subs' = sb1
     /\ Respond(rem.rooms,
                IF rem.removed
                THEN LeftNotice(rem.rooms, cur, Group(sb1, cur) \ {s})
                ELSE << >>,
                Outcome("disconnect", s, cur,
                        IF rem.removed THEN "ok" ELSE "noop"))
     /\ authenticatedUsers' = [a \in DOMAIN authenticatedUsers \ {s} |->
                                  authenticatedUsers[a]]
     /\ UNCHANGED <<currentRoom, uuids, now, timers, syncInterval, pendingAuth, player>>

\* the unicast that answers a refused request
Denied(s) == << Emit("permission-denied", {s}, Null) >>

\* handleGrantPlaylistPermission
handleGrantPlaylistPermission(s, target) ==
  LET cur == currentRoom[s]
  IN /\ s \in connected
     /\ IF cur = Null
        THEN Respond(rooms, << >>,
                     Outcome("grant-playlist-permission", s, cur, "ignored"))
        ELSE IF ~RoomExists(rooms, cur) \/ ~isOwner(rooms[cur], s)
        THEN Respond(rooms, Denied(s),
                     Outcome("grant-playlist-permission", s, cur, "denied"))
        ELSE LET g == grantPlaylistPermission(rooms[cur], target)
             IN IF g.success
                THEN Respond(PutRoom(rooms, cur, g.room),
                             << Emit("permissions-updated", Group(subs, cur),
                                     g.room.participants) >>,
                             Outcome("grant-playlist-permission", s, cur, "ok"))
                ELSE Respond(rooms, << >>,
                             Outcome("grant-playlist-permission", s, cur, "noop"))
     /\ UNCHANGED <<currentRoom, connected, closed, subs, uuids, now, timers, syncInterval,
                    authenticatedUsers, pendingAuth, player>>

\* handleRevokePlaylistPermission
handleRevokePlaylistPermission(s, target) ==
  LET cur == currentRoom[s]
  IN /\ s \in connected
     /\ IF cur = Null
        THEN Respond(rooms, << >>,
                     Outcome("revoke-playlist-permission", s, cur, "ignored"))
        ELSE IF ~RoomExists(rooms, cur) \/ ~isOwner(rooms[cur], s)
        THEN Respond(rooms, Denied(s),
                     Outcome("revoke-playlist-permission", s, cur, "denied"))
        ELSE LET g == revokePlaylistPermission(rooms[cur], target)
             IN IF g.success
                THEN Respond(PutRoom(rooms, cur, g.room),
                             << Emit("permissions-updated", Group(subs, cur),
                                     g.room.participants) >>,
                             Outcome("revoke-playlist-permission", s, cur, "ok"))
                ELSE Respond(rooms, << >>,
                             Outcome("revoke-playlist-permission", s, cur, "noop"))
     /\ UNCHANGED <<currentRoom, connected, closed, subs, uuids, now, timers, syncInterval,
                    authenticatedUsers, pendingAuth, player>>

\* handleKickParticipant
handleKickParticipant(s, target) ==
  LET cur == currentRoom[s]
  IN /\ s \in connected
     /\ IF cur = Null
        THEN Respond(rooms, << >>,
                     Outcome("kick-participant", s, cur, "ignored"))
        ELSE IF ~RoomExists(rooms, cur) \/ ~isOwner(rooms[cur], s)
                \/ target = s
        THEN Respond(rooms, Denied(s),
                     Outcome("kick-participant", s, cur, "denied"))
        ELSE LET rem == removeParticipantFromRoom(rooms, cur, target)
             IN Respond(rem.rooms,
                        << Emit("participant-kicked", Private(target), Null) >>
                          \o LeftNotice(rem.rooms, cur, Group(subs, cur)),
                        Outcome("kick-participant", s, cur,
                                IF rem.removed THEN "ok" ELSE "noop"))
     /\ UNCHANGED <<currentRoom, connected, closed, subs, uuids, now, timers, syncInterval,
                    authenticatedUsers, pendingAuth, player>>

(* ----------------------- SocketHandlers: playlist --------------------- *)

\* the emissions of a playNext made by skip-video or video-ended
AdvanceNotice(n, to) ==
  << IF n.next # NullVideo
     THEN Emit("play-video", to, n.next)
     ELSE Emit("playlist-ended", to, Null),
     Emit("playlist-updated", to, n.room.playlist) >>

\* fault: the added video is queued and never started
handleAddVideoNoAutoStart(s, video) ==
  LET cur == currentRoom[s]
      ev  == "add-video"
  IN /\ s \in connected
     /\ IF cur = Null \/ ~RoomExists(rooms, cur)
        THEN /\ Respond(rooms, << >>, Outcome(ev, s, cur, "ignored"))
             /\ UNCHANGED uuids
        ELSE IF ~hasPlaylistPermission(rooms[cur], s)
        THEN /\ Respond(rooms, Denied(s), Outcome(ev, s, cur, "denied"))
             /\ UNCHANGED uuids
        ELSE LET a  == addVideo(rooms[cur], video, s, uuidv4)
             IN /\ uuids < MaxIds
                /\ uuids' = uuids + 1
                /\ Respond(PutRoom(rooms, cur, a.room),
                           << Emit("playlist-updated", Group(subs, cur),
                                   a.room.playlist) >>,
                           Outcome(ev, s, cur, "ok"))
     /\ UNCHANGED <<currentRoom, connected, closed, subs, now, timers, syncInterval,
                    authenticatedUsers, pendingAuth, player>>

\* handleAddVideo
handleAddVideo(s, video) ==
  LET cur == currentRoom[s]
      ev  == "add-video"
  IN /\ s \in connected
     /\ IF cur = Null \/ ~RoomExists(rooms, cur)
        THEN /\ Respond(rooms, << >>, Outcome(ev, s, cur, "ignored"))
             /\ UNCHANGED uuids
        ELSE IF ~hasPlaylistPermission(rooms[cur], s)
        THEN /\ Respond(rooms, Denied(s), Outcome(ev, s, cur, "denied"))
             /\ UNCHANGED uuids
        ELSE LET a  == addVideo(rooms[cur], video, s, uuidv4)
                 n  == playNext(a.room, now)
                 to == Group(subs, cur)
             IN /\ uuids < MaxIds
                /\ uuids' = uuids + 1
                /\ IF a.room.currentVideo = NullVideo
                   THEN Respond(PutRoom(rooms, cur, n.room),
                                (IF n.next # NullVideo
                                 THEN << Emit("play-video", to, n.next) >>
                                 ELSE << >>)
                                 \o << Emit("playlist-updated", to, n.room.playlist) >>,
                                Outcome(ev, s, cur, "ok"))
                   ELSE Respond(PutRoom(rooms, cur, a.room),
                                << Emit("playlist-updated", to, a.room.playlist) >>,
                                Outcome(ev, s, cur, "ok"))
     /\ UNCHANGED <<currentRoom, connected, closed, subs, now, timers, syncInterval,
                    authenticatedUsers, pendingAuth, player>>

\* handleRemoveVideo
handleRemoveVideo(s, videoId) ==
  LET cur == currentRoom[s]
      ev  == "remove-video"
  IN /\ s \in connected
     /\ IF cur = Null \/ ~RoomExists(rooms, cur)
        THEN Respond(rooms, << >>, Outcome(ev, s, cur, "ignored"))
        ELSE IF ~hasPlaylistPermission(rooms[cur], s)
        THEN Respond(rooms, Denied(s), Outcome(ev, s, cur, "denied"))
        ELSE LET r == removeVideo(rooms[cur], videoId)
             IN IF r.removed
                THEN Respond(PutRoom(rooms, cur, r.room),
                             << Emit("playlist-updated", Group(subs, cur),
                                     r.room.playlist) >>,
                             Outcome(ev, s, cur, "ok"))
                ELSE Respond(PutRoom(rooms, cur, r.room), << >>,
                             Outcome(ev, s, cur, "noop"))
     /\ UNCHANGED <<currentRoom, connected, closed, subs, uuids, now, timers, syncInterval,
                    authenticatedUsers, pendingAuth, player>>

\* handleReorderPlaylist
handleReorderPlaylist(s, newPlaylist) ==
  LET cur == currentRoom[s]
      ev  == "reorder-playlist"
  IN /\ s \in connected
     /\ IF cur = Null \/ ~RoomExists(rooms, cur)
        THEN Respond(rooms, << >>, Outcome(ev, s, cur, "ignored"))
        ELSE IF ~hasPlaylistPermission(rooms[cur], s)
        THEN Respond(rooms, Denied(s), Outcome(ev, s, cur, "denied"))
        ELSE LET r == reorderPlaylist(rooms[cur], newPlaylist)
             IN IF r.success
                THEN Respond(PutRoom(rooms, cur, r.room),
                             << Emit("playlist-updated", Group(subs, cur),
                                     r.room.playlist) >>,
                             Outcome(ev, s, cur, "ok"))
                ELSE Respond(rooms, << >>, Outcome(ev, s, cur, "failed"))
     /\ UNCHANGED <<currentRoom, connected, closed, subs, uuids, now, timers, syncInterval,
                    authenticatedUsers, pendingAuth, player>>

\* handleSkipVideo
handleSkipVideo(s) ==
  LET cur == currentRoom[s]
      ev  == "skip-video"
  IN /\ s \in connected
     /\ IF cur = Null \/ ~RoomExists(rooms, cur)
        THEN Respond(rooms, << >>, Outcome(ev, s, cur, "ignored"))
        ELSE IF ~hasPlaylistPermission(rooms[cur], s)
        THEN Respond(rooms, Denied(s), Outcome(ev, s, cur, "denied"))
        ELSE LET n == playNext(rooms[cur], now)
             IN Respond(PutRoom(rooms, cur, n.room),
                        AdvanceNotice(n, Group(subs, cur)),
                        Outcome(ev, s, cur, "ok"))
     /\ UNCHANGED <<currentRoom, connected, closed, subs, uuids, now, timers, syncInterval,
                    authenticatedUsers, pendingAuth, player>>

\* handleVideoEnded
handleVideoEnded(s) ==
  LET cur == currentRoom[s]
      ev  == "video-ended"
  IN /\ s \in connected
     /\ IF cur = Null \/ ~RoomExists(rooms, cur)
        THEN Respond(rooms, << >>, Outcome(ev, s, cur, "ignored"))
        ELSE LET n == playNext(rooms[cur], now)
             IN Respond(PutRoom(rooms, cur, n.room),
                        AdvanceNotice(n, Group(subs, cur)),
                        Outcome(ev, s, cur, "ok"))
     /\ UNCHANGED <<currentRoom, connected, closed, subs, uuids, now, timers, syncInterval,
                    authenticatedUsers, pendingAuth, player>>

(* ----------------------- SocketHandlers: playback --------------------- *)

\* fault: the except(sender) is missing
OthersAndSender(roomId, s) == Group(subs, roomId)

\* SyncService.broadcastPlayState / broadcastSeek: io.to(room).except(sender)
Others(roomId, s) == Group(subs, roomId) \ {s}

\* handlePlay
handlePlay(s) ==
  LET cur == currentRoom[s]
  IN /\ s \in connected
     /\ IF cur = Null \/ ~RoomExists(rooms, cur)
        THEN Respond(rooms, << >>, Outcome("play", s, cur, "ignored"))
        ELSE Respond(PutRoom(rooms, cur, updateStatePlaying(rooms[cur], TRUE, now)),
                     << Emit("play", Others(cur, s), Null) >>,
                     Outcome("play", s, cur, "ok"))
     /\ UNCHANGED <<currentRoom, connected, closed, subs, uuids, now, timers, syncInterval,
                    authenticatedUsers, pendingAuth, player>>

\* handlePause
handlePause(s) ==
  LET cur == currentRoom[s]
  IN /\ s \in connected
     /\ IF cur = Null \/ ~RoomExists(rooms, cur)
        THEN Respond(rooms, << >>, Outcome("pause", s, cur, "ignored"))
        ELSE Respond(PutRoom(rooms, cur, updateStatePlaying(rooms[cur], FALSE, now)),
                     << Emit("pause", Others(cur, s), Null) >>,
                     Outcome("pause", s, cur, "ok"))
     /\ UNCHANGED <<currentRoom, connected, closed, subs, uuids, now, timers, syncInterval,
                    authenticatedUsers, pendingAuth, player>>

\* handleSeek
handleSeek(s, time) ==
  LET cur == currentRoom[s]
  IN /\ s \in connected
     /\ IF cur = Null \/ ~RoomExists(rooms, cur)
        THEN Respond(rooms, << >>, Outcome("seek", s, cur, "ignored"))
        ELSE Respond(PutRoom(rooms, cur, updateStateTime(rooms[cur], time, now)),
                     << Emit("seek", Others(cur, s), time) >>,
                     Outcome("seek", s, cur, "ok"))
     /\ UNCHANGED <<currentRoom, connected, closed, subs, uuids, now, timers, syncInterval,
                    authenticatedUsers, pendingAuth, player>>

\* socket.on(TIME_UPDATE): SyncService.updateRoomTime
updateRoomTime(s, time) ==
  LET cur == currentRoom[s]
  IN /\ s \in connected
     /\ IF cur = Null \/ ~RoomExists(rooms, cur)
           \/ rooms[cur].currentVideo = NullVideo \/ ~rooms[cur].isPlaying
        THEN Respond(rooms, << >>, Outcome("time-update", s, cur, "ignored"))
        ELSE Respond(PutRoom(rooms, cur, updateStateTime(rooms[cur], time, now)),
                     << >>, Outcome("time-update", s, cur, "ok"))
     /\ UNCHANGED <<currentRoom, connected, closed, subs, uuids, now, timers, syncInterval,
                    authenticatedUsers, pendingAuth, player>>

(* --------------------- SocketHandlers: authentication ----------------- *)

\* the access tokens a client sends: none, one the identity provider
\* accepts, and one it rejects (or a call to the provider that fails)
AccessTokens == {"", "good", "bad"}

\* response.data of the provider's /userinfo for an accepted token
getUserInfo(accessToken) == [username |-> "alice", sub |-> "u1"]

\* Map.set on authenticatedUsers
SetUser(users, socketId, userInfo) ==
  [a \in DOMAIN users \cup {socketId} |->
     IF a = socketId THEN userInfo ELSE users[a]]

\* socket.on(AUTHENTICATE): handleAuthentication up to its await.  Without
\* a token verifyToken throws at once and the catch emits AUTH_ERROR; with
\* one, the call to the provider is under way when the handler yields.
handleAuthentication(s, accessToken) ==
  LET cur == currentRoom[s]
  IN /\ s \in connected
     /\ IF accessToken = ""
        THEN /\ Respond(rooms, << Emit("auth-error", {s}, "Access token required") >>,
                        Outcome("authenticate", s, cur, "error"))
             /\ UNCHANGED pendingAuth
        ELSE /\ Respond(rooms, << >>, Outcome("authenticate", s, cur, "pending"))
             /\ pendingAuth' = pendingAuth \cup {[sock |-> s, token |-> accessToken]}
     /\ UNCHANGED <<currentRoom, connected, closed, subs, uuids, now, timers,
                    syncInterval, authenticatedUsers, player>>

\* handleAuthentication from its await on: verifyToken has returned the
\* userInfo, or it has thrown.  The socket may have gone in the meantime;
\* an emit to it then reaches nobody.
verifyTokenReturns(s, accessToken) ==
  /\ Alive
  /\ [sock |-> s, token |-> accessToken] \in pendingAuth
  /\ pendingAuth' = pendingAuth \ {[sock |-> s, token |-> accessToken]}
  /\ IF accessToken = "good"
     THEN /\ authenticatedUsers' =
               SetUser(authenticatedUsers, s, getUserInfo(accessToken))
          /\ out' = << Emit("auth-success", Private(s), getUserInfo(accessToken)) >>
          /\ last' = [ ev   |-> "auth-success", sock |-> s, room |-> Null,
                       res  |-> "ok", from |-> Null, ownerBefore |-> Null ]
     ELSE /\ UNCHANGED authenticatedUsers
          /\ out' = << Emit("auth-error", Private(s),
                            "Failed to get user information") >>
          /\ last' = [ ev   |-> "auth-error", sock |-> s, room |-> Null,
                       res  |-> "error", from |-> Null, ownerBefore |-> Null ]
  /\ UNCHANGED <<rooms, currentRoom, connected, closed, subs, uuids, now,
                 timers, events, syncInterval, player>>

(* ------------------ SocketHandlers: malformed payloads ---------------- *)

\* the room id of a join-room sent without one, or with an empty one: a
\* falsy value, which `if (currentRoom)` and `if (!roomId)` take for no
\* room while the registry keeps a room under it as under any other key
NoRoomId == Null

\* Room.updateState({ currentTime: undefined }): no field is assigned, the
\* stamp is
updateStateNothing(room, t) == [room EXCEPT !.lastUpdate = t]

\* handleSeek for a seek that comes without a time (the payload is
\* undefined): updateState stores nothing, then broadcastSeek evaluates
\* time.toFixed(1) for its log line, which throws a TypeError before the emit
handleSeekNoNumber(s) ==
  LET cur == currentRoom[s]
  IN /\ s \in connected
     /\ IF cur = Null \/ ~RoomExists(rooms, cur)
        THEN Respond(rooms, << >>, Outcome("seek", s, cur, "ignored"))
        ELSE Respond(PutRoom(rooms, cur, updateStateNothing(rooms[cur], now)),
                     << >>, Outcome("seek", s, cur, "threw"))
     /\ UNCHANGED <<currentRoom, connected, closed, subs, uuids, now, timers,
                    syncInterval, authenticatedUsers, pendingAuth, player>>

\* handleReorderPlaylist for a payload that is no array (undefined, null, a
\* number, an object): Room.reorderPlaylist calls newPlaylist.map, which
\* throws a TypeError
handleReorderPlaylistNoList(s) ==
  LET cur == currentRoom[s]
      ev  == "reorder-playlist"
  IN /\ s \in connected
     /\ IF cur = Null \/ ~RoomExists(rooms, cur)
        THEN Respond(rooms, << >>, Outcome(ev, s, cur, "ignored"))
        ELSE IF ~hasPlaylistPermission(rooms[cur], s)
        THEN Respond(rooms, Denied(s), Outcome(ev, s, cur, "denied"))
        ELSE Respond(rooms, << >>, Outcome(ev, s, cur, "threw"))
     /\ UNCHANGED <<currentRoom, connected, closed, subs, uuids, now, timers,
                    syncInterval, authenticatedUsers, pendingAuth, player>>

(* ------------------------------ client -------------------------------- *)

\* the thresholds of the client's sync effect, in milliseconds
ManualThreshold == 3000
PeriodicFloor == 4000
InitialThreshold == 2000
EarlyLocal == 5000
LateTarget == 10000
ZeroGuard == 15000

\* the playheads a server sends and the positions a client's player is at
SyncTimes == {0, 12000, 100000}
LocalTimes == {0, 4000, 4100, 14900, 20000, 95900, 96000, 100000}

\* Math.abs
Abs(x) == IF x < 0 THEN -x ELSE x

\* usePlayerControls: handlePeriodicSync, on periodic-sync
handlePeriodicSync(data) ==
  /\ player' = [player EXCEPT !.syncTime = [ time      |-> data.time,
                                             type      |-> "periodic",
                                             tolerance |-> data.tolerance ]]
  /\ UNCHANGED <<rooms, currentRoom, connected, closed, subs, uuids, now, out,
                 last, timers, events, syncInterval, authenticatedUsers,
                 pendingAuth>>

\* usePlayerControls: handleSyncPosition, on sync-position
handleSyncPosition(data) ==
  /\ player' = [player EXCEPT !.syncTime = [ time      |-> data.time,
                                             type      |-> "initial",
                                             tolerance |-> 0 ]]
  /\ UNCHANGED <<rooms, currentRoom, connected, closed, subs, uuids, now, out,
                 last, timers, events, syncInterval, authenticatedUsers,
                 pendingAuth>>

\* usePlayerControls: handleSeekEvent, on seek.  syncTime is the bare
\* number; the effect reads it as 'initial' when it is 0, else 'manual'
handleSeekEvent(time) ==
  /\ player' = [player EXCEPT !.syncTime =
                   [ time      |-> time,
                     type      |-> IF time = 0 THEN "initial" ELSE "manual",
                     tolerance |-> 0 ]]
  /\ UNCHANGED <<rooms, currentRoom, connected, closed, subs, uuids, now, out,
                 last, timers, events, syncInterval, authenticatedUsers,
                 pendingAuth>>

\* VideoPlayer, the sync effect: customTolerance || 3, raised to 4 for a
\* periodic sync, 2 for an initial one or a player still at its start
syncThreshold(syncType, customTolerance, currentTime, targetTime) ==
  LET threshold == IF customTolerance # 0 THEN customTolerance
                   ELSE ManualThreshold
  IN IF syncType = "periodic" THEN Max(threshold, PeriodicFloor)
     ELSE IF syncType = "initial"
             \/ (currentTime < EarlyLocal /\ targetTime > LateTarget)
     THEN InitialThreshold
     ELSE threshold

\* VideoPlayer, the sync effect: shouldSync
shouldSync(currentTime, sync) ==
  /\ Abs(currentTime - sync.time)
       > syncThreshold(sync.type, sync.tolerance, currentTime, sync.time)
  /\ ~(sync.time = 0 /\ currentTime < ZeroGuard)

\* VideoPlayer: the effect on [syncTime, playerReady]: it seeks the player
\* or skips, then onSyncComplete clears syncTime
SyncEffect ==
  /\ player.syncTime # NoSync
  /\ player.playerReady
  /\ player' = IF shouldSync(player.currentTime, player.syncTime)
               THEN [player EXCEPT !.currentTime = player.syncTime.time,
                                   !.seekTo = << player.syncTime.time >>,
                                   !.syncTime = NoSync]
               ELSE [player EXCEPT !.seekTo = << >>,
                                   !.syncTime = NoSync]
  /\ UNCHANGED <<rooms, currentRoom, connected, closed, subs, uuids, now, out,
                 last, timers, events, syncInterval, authenticatedUsers,
                 pendingAuth>>

\* VideoPlayer: onPlayerReady
onPlayerReady ==
  /\ ~player.playerReady
  /\ player' = [player EXCEPT !.playerReady = TRUE]
  /\ UNCHANGED <<rooms, currentRoom, connected, closed, subs, uuids, now, out,
                 last, timers, events, syncInterval, authenticatedUsers,
                 pendingAuth>>

\* a client in a room: its player loaded or not, at any position
InitClient ==
  /\ InitServer
  /\ player \in [ playerReady : BOOLEAN, currentTime : LocalTimes,
                   syncTime : {NoSync}, seekTo : {<< >>} ]

(* ------------------------------ timers -------------------------------- *)

\* SocketHandlers.stop -> SyncService.stop: the interval is cleared
stop == syncInterval' = FALSE

\* gracefulShutdown on SIGTERM or SIGINT: socketHandlers.stop(), then
\* server.close().  The open sockets stay open, their handlers stay
\* registered and the timeouts that were set stay set.
gracefulShutdown ==
  /\ Alive
  /\ syncInterval
  /\ stop
  /\ out' = << >>
  /\ last' = [ ev   |-> "shutdown", sock |-> Null, room |-> Null, res |-> "ok",
               from |-> Null, ownerBefore |-> Null ]
  /\ UNCHANGED <<rooms, currentRoom, connected, closed, subs, uuids, now,
                 timers, events, authenticatedUsers, pendingAuth, player>>

\* fault: the number of participants is not looked at
getRoomsForPeriodicSyncAnyPlaying ==
  {r \in DOMAIN rooms :
     /\ rooms[r].currentVideo # NullVideo
     /\ rooms[r].isPlaying}

\* RoomManager.getRoomsForPeriodicSync, as the set of the room ids
getRoomsForPeriodicSync ==
  {r \in DOMAIN rooms :
     /\ rooms[r].currentVideo # NullVideo
     /\ rooms[r].isPlaying
     /\ ParticipantCount(rooms[r]) > 1}

\* the emit of performPeriodicSync for one room
PeriodicSync(r) ==
  Emit("periodic-sync", Group(subs, r),
       [ time      |-> getState(rooms[r], now).currentTime,
         tolerance |-> PeriodicTolerance ])

\* SyncService.performPeriodicSync, the callback of the interval that
\* start() sets.  The run is a stretch of the server's life that is shorter
\* than the period, so the interval may fall due at any moment of it.  The
\* rooms are visited in the order of the registry, which the model does not
\* keep: every order is taken.
performPeriodicSync ==
  /\ Alive
  /\ syncInterval
  /\ \E order \in [1..Cardinality(getRoomsForPeriodicSync) -> getRoomsForPeriodicSync] :
        /\ \A i, j \in DOMAIN order : order[i] = order[j] => i = j
        /\ out' = [i \in DOMAIN order |-> PeriodicSync(order[i])]
  /\ last' = [ ev   |-> "periodic-sync", sock |-> Null, room |-> Null, res |-> "ok",
               from |-> Null, ownerBefore |-> Null ]
  /\ UNCHANGED <<rooms, currentRoom, connected, closed, subs, uuids, now,
                 timers, events, syncInterval,
                    authenticatedUsers, pendingAuth, player>>

\* the callback of the setTimeout of syncNewParticipant runs: timeouts of
\* equal delay run in the order they were set, none before it is due
SyncTimeout ==
  /\ Alive
  /\ timers # << >>
  /\ Head(timers).due <= now
  /\ timers' = Tail(timers)
  /\ out' = << Emit("sync-position", Private(Head(timers).socketId),
                    [ time      |-> Head(timers).time,
                      isPlaying |-> Head(timers).isPlaying ]) >>
  /\ last' = [ ev   |-> "sync-timeout", sock |-> Head(timers).socketId,
               room |-> Null, res |-> "ok", from |-> Null, ownerBefore |-> Null ]
  /\ UNCHANGED <<rooms, currentRoom, connected, closed, subs, uuids, now, events,
               syncInterval,
                    authenticatedUsers, pendingAuth, player>>

(* ------------------------------ clock --------------------------------- *)

\* the wall clock advances between two events
Tick ==
  /\ now < MaxTicks * 1000
  /\ \E d \in ClockSteps : now' = now + d
  /\ UNCHANGED <<rooms, currentRoom, connected, closed, subs, uuids, out, last,
                 timers, events, syncInterval,
                    authenticatedUsers, pendingAuth, player>>

(* ------------------------------ payloads ------------------------------ *)

Range(f) == {f[i] : i \in DOMAIN f}

SeqsUpTo(S, n) == UNION {[1..k -> S] : k \in 0..n}

\* an entry a client made up, under an id the server never issued
ForgedEntry == [id |-> MaxIds + 1, video |-> "x", addedBy |-> "Unknown"]

\* the entries a client puts into a reorder payload: the queued entries as
\* the server sent them, the same entries with another media item, and a
\* made-up one
PayloadEntries(room) ==
  Range(room.playlist)
    \cup {[e EXCEPT !.video = v] : e \in Range(room.playlist), v \in PayloadVideos}
    \cup {ForgedEntry}

ReorderPayloads(s) ==
  IF currentRoom[s] # Null /\ RoomExists(rooms, currentRoom[s])
  THEN SeqsUpTo(PayloadEntries(rooms[currentRoom[s]]), MaxPayload)
  ELSE {<< >>}

\* the video ids a client names in remove-video
VideoIds == 1..(MaxIds + 1)

(* ------------------------------ Next ---------------------------------- *)

Next ==
  \/ \E s \in Sockets : handleConnection(s)
  \/ \E s \in Sockets, r \in RoomIds : handleJoinRoom(s, r)
  \/ \E s \in Sockets : handleDisconnect(s)
  \/ \E s, t \in Sockets : handleGrantPlaylistPermission(s, t)
  \/ \E s, t \in Sockets : handleRevokePlaylistPermission(s, t)
  \/ \E s, t \in Sockets : handleKickParticipant(s, t)
  \/ \E s \in Sockets, v \in Videos : handleAddVideo(s, v)
  \/ \E s \in Sockets, id \in VideoIds : handleRemoveVideo(s, id)
  \/ \E s \in Sockets : \E p \in ReorderPayloads(s) : handleReorderPlaylist(s, p)
  \/ \E s \in Sockets : handleSkipVideo(s)
  \/ \E s \in Sockets : handleVideoEnded(s)
  \/ \E s \in Sockets : handlePlay(s)
  \/ \E s \in Sockets : handlePause(s)
  \/ \E s \in Sockets, t \in ClientTimes : handleSeek(s, t)
  \/ \E s \in Sockets, t \in ClientTimes : updateRoomTime(s, t)
  \/ SyncTimeout
  \/ Tick

Spec == Init /\ [][Next]_vars

\* the server with its scheduler and its shutdown: the client events that
\* fill rooms and start, stop and move playback, the timeouts, the periodic
\* sync and gracefulShutdown
NextSync ==
  \/ \E s \in Sockets : handleConnection(s)
  \/ \E s \in Sockets, r \in RoomIds : handleJoinRoom(s, r)
  \/ \E s \in Sockets : handleDisconnect(s)
  \/ \E s, t \in Sockets : handleKickParticipant(s, t)
  \/ \E s \in Sockets, v \in Videos : handleAddVideo(s, v)
  \/ \E s \in Sockets : handleSkipVideo(s)
  \/ \E s \in Sockets : handlePlay(s)
  \/ \E s \in Sockets : handlePause(s)
  \/ \E s \in Sockets, t \in ClientTimes : handleSeek(s, t)
  \/ SyncTimeout
  \/ performPeriodicSync
  \/ gracefulShutdown
  \/ Tick

SpecSync == Init /\ [][NextSync]_vars

\* the server with clients that authenticate: connections, the
\* verification of their tokens, joins and disconnects
NextAuth ==
  \/ \E s \in Sockets : handleConnection(s)
  \/ \E s \in Sockets, a \in AccessTokens : handleAuthentication(s, a)
  \/ \E s \in Sockets, a \in AccessTokens : verifyTokenReturns(s, a)
  \/ \E s \in Sockets, r \in RoomIds : handleJoinRoom(s, r)
  \/ \E s \in Sockets : handleDisconnect(s)

SpecAuth == Init /\ [][NextAuth]_vars

\* the server from the moment the first two connections are in room A:
\* both have connected and sent join-room A, nothing else has happened
InitEnded ==
  /\ rooms = addParticipantToRoom(
               addParticipantToRoom([r \in {} |-> NewRoom(0)],
                                    "A", "s1", NoUser, 0),
               "A", "s2", NoUser, 0)
  /\ currentRoom = [s \in Sockets |-> IF s \in {"s1", "s2"} THEN "A" ELSE Null]
  /\ connected = {"s1", "s2"}
  /\ closed = {}
  /\ subs = [s \in Sockets |-> IF s \in {"s1", "s2"} THEN {"A"} ELSE {}]
  /\ uuids = 0
  /\ now = 0
  /\ out = << >>
  /\ last = [ ev |-> "none", sock |-> Null, room |-> Null, res |-> "none",
              from |-> Null, ownerBefore |-> Null ]
  /\ timers = << >>
  /\ events = 0
  /\ syncInterval = TRUE
  /\ authenticatedUsers = [s \in {} |-> NoUser]
  /\ pendingAuth = {}
  /\ player = [ playerReady |-> FALSE, currentTime |-> 0,
                syncTime |-> NoSync, seekTo |-> << >> ]

\* two participants that queue items and whose players report their end
NextEnded ==
  \/ \E s \in Sockets, v \in Videos : handleAddVideo(s, v)
  \/ \E s \in Sockets : handleSkipVideo(s)
  \/ \E s \in Sockets : handleVideoEnded(s)
  \/ \E s \in Sockets : handlePause(s)
  \/ Tick

SpecEnded == InitEnded /\ [][NextEnded]_vars

\* one client and what the server sends it
NextClient ==
  \/ \E t \in SyncTimes :
       handlePeriodicSync([time |-> t, tolerance |-> PeriodicTolerance])
  \/ \E t \in SyncTimes : handleSyncPosition([time |-> t, isPlaying |-> TRUE])
  \/ \E t \in SyncTimes : handleSeekEvent(t)
  \/ SyncEffect
  \/ onPlayerReady

SpecClient == InitClient /\ [][NextClient]_vars

\* the server with clients that also send payloads of the wrong type
NextPayload ==
  \/ Next
  \/ \E s \in Sockets : handleSeekNoNumber(s)
  \/ \E s \in Sockets : handleReorderPlaylistNoList(s)
  \/ \E s \in Sockets : handleJoinRoom(s, NoRoomId)

SpecPayload == Init /\ [][NextPayload]_vars

(* ====================================================================== *)
(*                              Properties                                *)
(* ====================================================================== *)

\* the step is a handled client event (the clock and new connections leave
\* the event counter alone)
Handled == events' # events

\* the participants of a room that carry isOwner = true
OwnerFlags(room) ==
  {room.participants[i].socketId :
     i \in {j \in DOMAIN room.participants : room.participants[j].isOwner}}

\* C1: in every room with participants at most one participant has
\* isOwner = true, and right after a join that found no participants in the
\* room (the join created it) the joiner is the one participant with
\* isOwner = true.
C1_OwnershipUniqueness ==
  /\ \A r \in DOMAIN rooms :
        ParticipantCount(rooms[r]) > 0 => Cardinality(OwnerFlags(rooms[r])) <= 1
  /\ (last.ev = "join-room" /\ last.res = "created")
        => /\ last.room \in DOMAIN rooms
           /\ OwnerFlags(rooms[last.room]) = {last.sock}

\* a connection has just joined a room that had no participants, after an
\* earlier owner of some room has left it
C1_Witness ==
  /\ last.ev = "join-room" /\ last.res = "created"
  /\ last.from # Null /\ last.ownerBefore = last.sock
  /\ OwnerFlags(rooms[last.room]) = {last.sock}

\* the ids of a list of entries are the same multiset as those of another
SameIdMultiset(a, b) ==
  /\ Len(a) = Len(b)
  /\ \A id \in IdSet(a) \cup IdSet(b) :
        Cardinality({i \in DOMAIN a : a[i].id = id})
          = Cardinality({i \in DOMAIN b : b[i].id = id})

\* C2: a reorder-playlist succeeds only when the submitted list is a
\* permutation of the ids of the queue (it then is the new queue); every
\* other reorder fails and leaves the queue as it was.
C2_ReorderPermutationOnly ==
  [][ (Handled /\ last'.ev = "reorder-playlist" /\ last'.room \in DOMAIN rooms)
        => IF last'.res = "ok"
           THEN SameIdMultiset(rooms'[last'.room].playlist,
                               rooms[last'.room].playlist)
           ELSE rooms' = rooms ]_vars

\* the entry that add-video has just created carries the newest uuid
NewestEntry(room) ==
  IF room.currentVideo.id = uuids THEN room.currentVideo
  ELSE room.playlist[CHOOSE i \in DOMAIN room.playlist :
                       room.playlist[i].id = uuids]

\* the playlist-updated emissions of the last event
QueueBroadcasts == {i \in DOMAIN out : out[i].ev = "playlist-updated"}

\* C3: an add-video accepted for a room without a current item ends with
\* the new entry as currentVideo, isPlaying = true and playhead 0, the entry
\* not in the queue, and no queue broadcast of the step lists the entry.
C3_AutoStartOnFirstAdd ==
  [][ (Handled /\ last'.ev = "add-video" /\ last'.res = "ok"
         /\ rooms[last'.room].currentVideo = NullVideo)
        => LET room == rooms'[last'.room]
           IN /\ room.currentVideo.id = uuids'
              /\ room.currentVideo.id \notin IdSet(rooms[last'.room].playlist)
              /\ room.isPlaying
              /\ room.currentTime = 0
              /\ room.currentVideo.id \notin IdSet(room.playlist)
              /\ \A i \in DOMAIN out' :
                    /\ out'[i].ev = "playlist-updated"
                         => room.currentVideo.id \notin IdSet(out'[i].data)
                    /\ out'[i].ev = "play-video"
                         => out'[i].data = room.currentVideo ]_vars

\* an add-video has just started the entry it created, in a room that had
\* already played and exhausted an earlier entry
C3_Witness ==
  /\ last.ev = "add-video" /\ last.res = "ok"
  /\ last.room \in DOMAIN rooms
  /\ rooms[last.room].currentVideo.id = uuids
  /\ uuids > 1
  /\ rooms[last.room].isPlaying

QueueEvents == {"add-video", "remove-video", "reorder-playlist", "skip-video"}

\* C4: add-video, remove-video, reorder-playlist and skip-video from a
\* participant whose hasPlaylistPermission is false change no room, and emit
\* one permission-denied, to the requester alone.
C4_DeniedLeavesRoomAlone ==
  [][ (Handled /\ last'.ev \in QueueEvents
         /\ last'.room \in DOMAIN rooms
         /\ HasParticipant(rooms[last'.room], last'.sock)
         /\ ~getParticipant(rooms[last'.room], last'.sock).hasPlaylistPermission)
        => /\ rooms' = rooms
           /\ uuids' = uuids
           /\ Len(out') = 1
           /\ out'[1].ev = "permission-denied"
           /\ out'[1].to = {last'.sock} ]_vars

\* C5: in every room, currentVideo = null implies isPlaying = false and
\* stored playhead = 0.
C5_NoItemMeansStopped ==
  \A r \in DOMAIN rooms :
     rooms[r].currentVideo = NullVideo
       => (~rooms[r].isPlaying /\ rooms[r].currentTime = 0)

\* the entries of a room that are live: queued or current
LiveIds(room) ==
  IdSet(room.playlist) \cup
    (IF room.currentVideo = NullVideo THEN {} ELSE {room.currentVideo.id})

\* no two live entries of a room share an id
DistinctLive(room) ==
  /\ \A i, j \in DOMAIN room.playlist :
        room.playlist[i].id = room.playlist[j].id => i = j
  /\ room.currentVideo # NullVideo
        => room.currentVideo.id \notin IdSet(room.playlist)

\* C6: add-video and remove-video keep the ids of the live entries of the
\* room distinct, and the id of a new entry is none that uuidv4 has issued
\* before nor one that is live in any room.
C6_EntryIdsUniqueNeverReused ==
  [][ (Handled /\ last'.ev \in {"add-video", "remove-video"}
         /\ last'.room \in DOMAIN rooms)
        => LET before == rooms[last'.room]
               after  == rooms'[last'.room]
           IN /\ DistinctLive(before) => DistinctLive(after)
              /\ (last'.ev = "add-video" /\ last'.res = "ok")
                    => LET new == IF Len(after.playlist) > Len(before.playlist)
                                  THEN after.playlist[Len(after.playlist)]
                                  ELSE after.currentVideo
                       IN /\ new.id \notin 1..uuids
                          /\ \A r \in DOMAIN rooms : new.id \notin LiveIds(rooms[r]) ]_vars

\* an entry has just been added to a room in which an entry with an earlier
\* id is live no more (it was removed, or played to its end)
C6_Witness ==
  /\ last.ev = "add-video" /\ last.res = "ok"
  /\ last.room \in DOMAIN rooms
  /\ uuids \in LiveIds(rooms[last.room])
  /\ \E id \in 1..(uuids - 1) : \A r \in DOMAIN rooms : id \notin LiveIds(rooms[r])
  /\ DistinctLive(rooms[last.room])

\* the owner of a room is a participant that has the playlist permission,
\* both as its flag and in the permission set
OwnerPermitted(room) ==
  /\ HasParticipant(room, room.owner)
  /\ getParticipant(room, room.owner).hasPlaylistPermission
  /\ room.owner \in room.playlistPermissions

C8_OwnerPermissionIrrevocable ==
  /\ [](\A r \in DOMAIN rooms :
          ParticipantCount(rooms[r]) > 0 => OwnerPermitted(rooms[r]))
  /\ [][ \A s, t \in Sockets :
           (/\ handleRevokePlaylistPermission(s, t)
            /\ currentRoom[s] \in DOMAIN rooms
            /\ rooms[currentRoom[s]].owner = t)
             => /\ rooms' = rooms
                /\ last'.res \in {"noop", "denied"}
                /\ \A i \in DOMAIN out' : out'[i].to \subseteq {s} ]_vars

\* C9: a play or pause handled for a room that is playing its current item
\* (stored playhead not negative) leaves the playhead that getState computes
\* as it was before the event, so that the time played since lastUpdate is
\* not lost.
C9_SetPlayingReconciles ==
  [][ (Handled /\ last'.ev \in {"play", "pause"} /\ last'.res = "ok"
         /\ rooms[last'.room].isPlaying
         /\ rooms[last'.room].currentVideo # NullVideo
         /\ rooms[last'.room].currentTime >= 0)
        => AdjustedTime(rooms'[last'.room], now')
             = AdjustedTime(rooms[last'.room], now) ]_vars

\* C10: while a room plays its current item and only the clock moves, the
\* playhead that getState computes grows by the time that has passed.
C10_PlayheadFollowsClock ==
  [][ \A r \in DOMAIN rooms :
        (now' > now /\ rooms' = rooms
           /\ rooms[r].isPlaying /\ rooms[r].currentVideo # NullVideo)
          => AdjustedTime(rooms[r], now') - AdjustedTime(rooms[r], now)
               = now' - now ]_vars

AdvanceEvents == {"skip-video", "video-ended"}

\* C11: an advance (skip-video or video-ended that reaches playNext) makes
\* the head of the queue the current item, takes it out of the queue, and
\* sets playhead 0, isPlaying = true and lastUpdate = now; on an empty queue
\* it sets currentVideo = null and isPlaying = false.  An add-video to a room
\* without current item and queue makes the new entry current with an empty
\* queue, and one to a room with a current item leaves that item current and
\* appends the entry to the queue.  (From a fresh room these steps give
\* (A, []), (A, [B]), (B, []), (null, not playing).)
C11_AdvanceSemantics ==
  [][ (Handled /\ last'.res = "ok" /\ last'.ev \in AdvanceEvents \cup {"add-video"})
        => LET before == rooms[last'.room]
               after  == rooms'[last'.room]
           IN IF last'.ev \in AdvanceEvents
              THEN IF Len(before.playlist) > 0
                   THEN /\ after.currentVideo = Head(before.playlist)
                        /\ after.playlist = Tail(before.playlist)
                        /\ after.currentTime = 0
                        /\ after.isPlaying
                        /\ after.lastUpdate = now
                   ELSE /\ after.currentVideo = NullVideo
                        /\ ~after.isPlaying
                        /\ after.playlist = << >>
              ELSE IF before.currentVideo = NullVideo
                   THEN /\ before.playlist = << >>
                        /\ after.currentVideo.id = uuids'
                        /\ after.playlist = << >>
                        /\ after.isPlaying
                   ELSE /\ after.currentVideo = before.currentVideo
                        /\ Len(after.playlist) = Len(before.playlist) + 1
                        /\ SubSeq(after.playlist, 1, Len(before.playlist))
                             = before.playlist
                        /\ after.playlist[Len(after.playlist)].id = uuids' ]_vars

\* two entries have been added to a room and an advance has just made the
\* second one current: the room went through (A, []), (A, [B]) to (B, [])
C11_Witness ==
  /\ last.ev \in AdvanceEvents /\ last.res = "ok"
  /\ last.room \in DOMAIN rooms
  /\ uuids = 2
  /\ rooms[last.room].currentVideo.id = 2
  /\ rooms[last.room].playlist = << >>
  /\ rooms[last.room].isPlaying
  /\ rooms[last.room].currentTime = 0

AdminEvents ==
  {"grant-playlist-permission", "revoke-playlist-permission", "kick-participant"}

\* the sender s of a request is not the owner of the room it is in
NotOwner(s) ==
  \/ currentRoom[s] \notin DOMAIN rooms
  \/ rooms[currentRoom[s]].owner # s

\* a step that refuses the request of s: no room, membership, permission or
\* ownership changes, nothing goes to anyone but s, and a sender that is in
\* a room gets one permission-denied
Refused(s) ==
  /\ rooms' = rooms
  /\ subs' = subs
  /\ currentRoom' = currentRoom
  /\ \A i \in DOMAIN out' : out'[i].to \subseteq {s}
  /\ currentRoom[s] # Null => out' = << Emit("permission-denied", {s}, Null) >>

PeriodicEmissions == {i \in DOMAIN out : out[i].ev = "periodic-sync"}

\* the rooms of the registry with more than one participant that are playing
\* a current item
EligibleRooms ==
  {r \in RoomIds : /\ r \in DOMAIN rooms
                   /\ Len(rooms[r].participants) > 1
                   /\ rooms[r].isPlaying
                   /\ rooms[r].currentVideo # NullVideo}

\* C13: a run of performPeriodicSync emits one periodic-sync for each room
\* of the registry that has more than one participant, is playing and has a
\* current item, and nothing besides: it goes to the group of the room, which
\* holds every participant, and carries the playhead read at that moment
\* (stored playhead plus the time since lastUpdate, not below 0) and the
\* periodic tolerance of 4 s.  No other step emits a periodic-sync, so a room
\* that has left the registry gets none.
C13_PeriodicSyncExactlyEligibleRooms ==
  /\ [](PeriodicEmissions # {} => last.ev = "periodic-sync")
  /\ [][ performPeriodicSync
           => /\ Len(out') = Cardinality(EligibleRooms)
              /\ \A i \in DOMAIN out' : out'[i].ev = "periodic-sync"
              /\ \A r \in EligibleRooms :
                    \E i \in DOMAIN out' :
                       /\ out'[i].to = Group(subs, r)
                       /\ \A p \in DOMAIN rooms[r].participants :
                             rooms[r].participants[p].socketId \in out'[i].to
                       /\ out'[i].data.time
                            = Max(0, rooms[r].currentTime + (now - rooms[r].lastUpdate))
                       /\ out'[i].data.tolerance = 4000 ]_vars

\* the periodic sync has just broadcast the playhead 1 s to a room of at
\* least two that has played for 1 s
C13_Witness ==
  /\ last.ev = "periodic-sync"
  /\ Len(out) = 1
  /\ out[1].data.time = 1000
  /\ Cardinality(out[1].to) >= 2
  /\ EligibleRooms # {}

\* C14: every room of the registry has at least one participant, and the
\* room that a join creates (the id was not in the registry, or the join
\* itself emptied and removed the room of that id) is a fresh Room: empty
\* queue, no current item, not playing, playhead 0, the joiner its only
\* participant.
C14_RegistryHoldsOccupiedRooms ==
  /\ [](\A r \in DOMAIN rooms : Len(rooms[r].participants) >= 1)
  /\ [][ (Handled /\ last'.ev = "join-room")
           => LET r     == last'.room
                  s     == last'.sock
                  left  == currentRoom[s]
                  alone == /\ left \in DOMAIN rooms
                           /\ \A i \in DOMAIN rooms[left].participants :
                                 rooms[left].participants[i].socketId = s
                  gone  == left \in DOMAIN rooms /\ left # r /\ alone
                  fresh == r \notin DOMAIN rooms \/ (left = r /\ alone)
              IN /\ r \in DOMAIN rooms'
                 /\ gone => left \notin DOMAIN rooms'
                 /\ fresh => /\ rooms'[r].playlist = << >>
                             /\ rooms'[r].currentVideo = NullVideo
                             /\ ~rooms'[r].isPlaying
                             /\ rooms'[r].currentTime = 0
                             /\ Len(rooms'[r].participants) = 1
                             /\ rooms'[r].participants[1].socketId = s
                             /\ rooms'[r].owner = s ]_vars

\* a join has just created a fresh room under an id whose earlier room had
\* entries and was removed when its last participant left it
C14_Witness ==
  /\ last.ev = "join-room" /\ last.res = "created"
  /\ last.from = last.room
  /\ last.ownerBefore = last.sock
  /\ uuids >= 1
  /\ rooms[last.room].playlist = << >>
  /\ rooms[last.room].currentVideo = NullVideo
  /\ \A r \in DOMAIN rooms : LiveIds(rooms[r]) = {}

PlaybackEvents == {"play", "pause", "seek"}

\* the socket ids of the participants of a room
ParticipantIds(room) ==
  {room.participants[i].socketId : i \in DOMAIN room.participants}

\* C15: a play, pause or seek that is applied to a room is emitted once,
\* under its own event name, to a set of connections that holds every
\* participant of the room but the sender and does not hold the sender.
C15_PlaybackEventsSkipSender ==
  [][ (Handled /\ last'.ev \in PlaybackEvents /\ last'.res = "ok")
        => /\ Len(out') = 1
           /\ out'[1].ev = last'.ev
           /\ ParticipantIds(rooms'[last'.room]) \ {last'.sock} \subseteq out'[1].to
           /\ last'.sock \notin out'[1].to ]_vars

\* a participant of a room of three has just sent a seek, and the two others
\* got it
C15_Witness ==
  /\ last.ev = "seek" /\ last.res = "ok"
  /\ last.room \in DOMAIN rooms
  /\ last.sock \in ParticipantIds(rooms[last.room])
  /\ ParticipantCount(rooms[last.room]) = 3
  /\ out[1].to = ParticipantIds(rooms[last.room]) \ {last.sock}

\* the sync-position emissions of the last step
SyncPositions == {i \in DOMAIN out : out[i].ev = "sync-position"}

\* C16: a join-room into a room that is playing a current item sets one
\* timeout for the joiner, due 1 s after the join, and a join into a room
\* that is paused or has no current item sets none; no other event sets one.
\* A timeout runs once, not before it is due, and emits one sync-position,
\* to no connection but the joiner; nothing else emits sync-position.
C16_InitialSyncOnceAfterDelay ==
  /\ [](SyncPositions # {} => (last.ev = "sync-timeout" /\ Len(out) = 1))
  /\ [][ /\ (Handled /\ last'.ev = "join-room")
            => LET room == rooms'[last'.room]
               IN IF room.isPlaying /\ room.currentVideo # NullVideo
                  THEN /\ Len(timers') = Len(timers) + 1
                       /\ SubSeq(timers', 1, Len(timers)) = timers
                       /\ timers'[Len(timers')].socketId = last'.sock
                       /\ timers'[Len(timers')].due = now + 1000
                  ELSE timers' = timers
         /\ (Handled /\ last'.ev # "join-room") => timers' = timers
         /\ SyncTimeout
            => /\ now >= Head(timers).due
               /\ timers' = Tail(timers)
               /\ Len(out') = 1
               /\ out'[1].ev = "sync-position"
               /\ out'[1].to \subseteq {Head(timers).socketId}
         /\ Len(timers') < Len(timers) => SyncTimeout ]_vars

\* the timeout of a join has just run, 1 s or more after the join, and its
\* sync-position went to the joiner alone
C16_Witness ==
  /\ last.ev = "sync-timeout"
  /\ out[1].ev = "sync-position"
  /\ out[1].to = {last.sock}
  /\ now >= 1000
  /\ timers = << >>

SyncEvents == {"sync-position", "periodic-sync"}

\* C17: once gracefulShutdown has stopped the scheduler (syncInterval is
\* cleared), no step delivers a periodic-sync or a sync-position to any
\* connection.
C17_NoSyncAfterStop ==
  [][ (~syncInterval /\ out' # out)
        => \A i \in DOMAIN out' :
              out'[i].ev \in SyncEvents => out'[i].to = {} ]_vars

\* C18: the stored playhead (currentTime) of every room is >= 0.
C18_StoredPlayheadNonNegative ==
  \A r \in DOMAIN rooms : rooms[r].currentTime >= 0

\* the emissions of an advance that found the queue `queue` and left the
\* room as `after`: now-playing or queue-exhausted, then the queue, each to
\* a set of connections that holds every participant
AdvanceEmissions(queue, after, msgs) ==
  /\ Len(msgs) = 2
  /\ IF Len(queue) > 0
     THEN msgs[1].ev = "play-video" /\ msgs[1].data = Head(queue)
     ELSE msgs[1].ev = "playlist-ended"
  /\ msgs[2].ev = "playlist-updated"
  /\ msgs[2].data = after.playlist
  /\ \A i \in 1..2 : ParticipantIds(after) \subseteq msgs[i].to

\* C19: a skip-video advances the sender's room if the sender is in its
\* permission set and otherwise changes nothing; a video-ended from a
\* participant advances the room whether or not the sender has the
\* permission.  An advance emits play-video with the new current item when
\* the queue was not empty and playlist-ended when it was, then
\* playlist-updated with the queue, to all participants.
C19_SkipNeedsPermissionEndedDoesNot ==
  [][ (Handled /\ last'.ev \in AdvanceEvents /\ last'.room \in DOMAIN rooms)
        => LET s      == last'.sock
               before == rooms[last'.room]
               after  == rooms'[last'.room]
               head   == IF Len(before.playlist) > 0
                         THEN Head(before.playlist) ELSE NullVideo
               moved  == /\ last'.res = "ok"
                         /\ after.currentVideo = head
                         /\ AdvanceEmissions(before.playlist, after, out')
           IN IF last'.ev = "skip-video"
              THEN IF s \in before.playlistPermissions
                   THEN moved
                   ELSE rooms' = rooms /\ last'.res = "denied"
              ELSE s \in ParticipantIds(before) => moved ]_vars

C21_NoHandlerThrows ==
  [][ Handled
        => /\ last'.res # "threw"
           /\ last'.res \in {"ignored", "denied", "failed", "noop"}
                 => rooms' = rooms ]_vars

\* C22: a token verification that fails (no token, or the provider's call
\* throws) emits one auth-error, to the connection alone, attaches no
\* identity, closes no connection and changes no room; and a join-room of a
\* connection that has no identity attached makes it a participant with
\* userId null and the display name Guest-<connection id>.
C22_FailedAuthDegradesToGuest ==
  [][ /\ (last'.res = "error" /\ (last' # last \/ pendingAuth' # pendingAuth))
         => /\ authenticatedUsers' = authenticatedUsers
            /\ connected' = connected
            /\ closed' = closed
            /\ rooms' = rooms
            /\ Len(out') = 1
            /\ out'[1].ev = "auth-error"
            /\ out'[1].to \subseteq {last'.sock}
      /\ (Handled /\ last'.ev = "join-room"
            /\ last'.sock \notin DOMAIN authenticatedUsers)
         => LET p == getParticipant(rooms'[last'.room], last'.sock)
            IN /\ p.userId = "null"
               /\ p.username = "Guest-" \o last'.sock ]_vars

\* the first connection has had a token verification fail and has then
\* joined a room, as a guest
C22_Witness ==
  /\ last.ev = "join-room" /\ last.from = Null
  /\ events = 2
  /\ connected = {"s1"} /\ closed = {}
  /\ pendingAuth = {}
  /\ DOMAIN authenticatedUsers = {}
  /\ getParticipant(rooms[last.room], "s1").userId = Null
  /\ getParticipant(rooms[last.room], "s1").username = "Guest-s1"

\* C23: when a disconnect or a change of room takes the last participant
\* out of a room, Room.removeParticipant leaves that room with owner null.
C23_OwnerNullWhenLastLeaves ==
  [][ ( /\ Handled
        /\ last'.ev \in {"disconnect", "join-room"}
        /\ last'.from # Null
        /\ RoomExists(rooms, last'.from)
        /\ HasParticipant(rooms[last'.from], last'.sock)
        /\ ParticipantCount(rooms[last'.from]) = 1 )
      => removeParticipant(rooms[last'.from], last'.sock).room.owner = Null ]_vars

\* C24: a kick-participant of the owner that names a connection which is no
\* participant of the owner's room changes no room and emits nothing, to
\* the named connection or to the room; and a participant-kicked notice goes
\* only to a connection that the kick has removed.
C24_KickOfAbsentTargetIsSilent ==
  [][ (Handled /\ last'.ev = "kick-participant")
      => LET s == last'.sock
         IN /\ \A t \in Sockets \ {s} :
                 ( /\ handleKickParticipant(s, t)
                   /\ RoomExists(rooms, last'.from)
                   /\ isOwner(rooms[last'.from], s)
                   /\ ~HasParticipant(rooms[last'.from], t) )
                 => (rooms' = rooms /\ out' = << >>)
            /\ \A i \in DOMAIN out' :
                 out'[i].ev = "participant-kicked"
                 => \A t \in out'[i].to :
                      /\ HasParticipant(rooms[last'.from], t)
                      /\ ~HasParticipant(rooms'[last'.from], t) ]_vars

\* the entries a room holds: its queue and its current item
EntriesOf(room) ==
  Range(room.playlist) \cup ({room.currentVideo} \ {NullVideo})

\* C25: an entry keeps its content for as long as its room holds it: in
\* every step, an entry of a room before the step and an entry of the same
\* room after it that carry the same id are the same entry (media item,
\* id, addedBy); a reorder moves entries and changes none.
C25_EntryContentNeverChanges ==
  [][ \A r \in DOMAIN rooms \cap DOMAIN rooms' :
        \A e \in EntriesOf(rooms[r]), f \in EntriesOf(rooms'[r]) :
          e.id = f.id => e = f ]_vars

\* C26: the playhead that Room.getState reports at the present time is the
\* stored playhead of a room that is not playing, and the stored playhead
\* plus the time since lastUpdate of a room that is playing.
C26_ComputedPlayhead ==
  \A r \in DOMAIN rooms :
    getState(rooms[r], now).currentTime =
      IF rooms[r].isPlaying
      THEN rooms[r].currentTime + (now - rooms[r].lastUpdate)
      ELSE rooms[r].currentTime

\* C27: when a disconnect or a join-room removes the owner of a room and
\* participants remain, the owner after the step is the first of
\* the remaining participants in join order, and it is a function of the
\* participants alone.
C27_OwnershipPassesToEarliestJoined ==
  [][ ( /\ Handled
        /\ last'.ev \in {"disconnect", "join-room"}
        /\ last'.from # Null
        /\ RoomExists(rooms, last'.from)
        /\ rooms[last'.from].owner = last'.sock
        /\ HasParticipant(rooms[last'.from], last'.sock)
        /\ ParticipantCount(rooms[last'.from]) > 1 )
      => LET before == rooms[last'.from]
             after  == rooms'[last'.from]
             rest   == SelectSeq(before.participants,
                                 LAMBDA p : p.socketId # last'.sock)
         IN /\ RoomExists(rooms', last'.from)
            /\ after.owner = rest[1].socketId
            /\ after.participants[1].socketId = after.owner
            /\ after.participants[1].isOwner
            /\ \A i \in DOMAIN rest :
                 after.participants[i].socketId = rest[i].socketId ]_vars

\* the owner of a room of three has left it: the second to join owns it
C27_Witness ==
  /\ last.ev \in {"disconnect", "join-room"}
  /\ last.from = "A"
  /\ last.ownerBefore = last.sock
  /\ RoomExists(rooms, "A")
  /\ ParticipantCount(rooms["A"]) = 2
  /\ rooms["A"].owner = rooms["A"].participants[1].socketId
  /\ ~HasParticipant(rooms["A"], last.sock)

\* C28: an authorized request that names what is not there does nothing:
\* a remove-video, from a participant with the playlist permission, of an id
\* that is not in the queue; a grant or a revoke, from the owner, for a
\* socket that is no participant of the room; and the disconnect of a socket
\* that is a participant of no room.  Each ends as a no-op, changes no room
\* and emits nothing.
C28_AbsentTargetIsSilentNoOp ==
  [][ Handled
      => LET s   == last'.sock
             cur == last'.from
             silent == /\ last'.res = "noop"
                       /\ rooms' = rooms
                       /\ out' = << >>
         IN /\ (last'.ev = "remove-video" /\ cur # Null /\ RoomExists(rooms, cur))
               => \A v \in VideoIds :
                    ( /\ handleRemoveVideo(s, v)
                      /\ hasPlaylistPermission(rooms[cur], s)
                      /\ v \notin IdSet(rooms[cur].playlist) ) => silent
            /\ (last'.ev = "grant-playlist-permission"
                  /\ cur # Null /\ RoomExists(rooms, cur))
               => \A t \in Sockets :
                    ( /\ handleGrantPlaylistPermission(s, t)
                      /\ isOwner(rooms[cur], s)
                      /\ ~HasParticipant(rooms[cur], t) ) => silent
            /\ (last'.ev = "revoke-playlist-permission"
                  /\ cur # Null /\ RoomExists(rooms, cur))
               => \A t \in Sockets :
                    ( /\ handleRevokePlaylistPermission(s, t)
                      /\ isOwner(rooms[cur], s)
                      /\ ~HasParticipant(rooms[cur], t) ) => silent
            /\ ( /\ last'.ev = "disconnect"
                 /\ \A r \in DOMAIN rooms : ~HasParticipant(rooms[r], s) )
               => silent ]_vars

\* the owner has granted the playlist permission to a socket that is not in
\* its room, and nothing came of it
C28_Witness ==
  /\ last.ev = "grant-playlist-permission"
  /\ last.res = "noop"
  /\ RoomExists(rooms, last.from)
  /\ isOwner(rooms[last.from], last.sock)
  /\ out = << >>

\* C29: when the client's sync effect handles a periodic sync {time,
\* tolerance}, it seeks its player to time if and only if the distance of
\* the player's position from time is greater than the tolerance sent:
\* not at exactly the tolerance, and at the tolerance plus 0.1 s.
C29_ClientSeeksBeyondTolerance ==
  [][ ( /\ player.syncTime.type = "periodic"
        /\ player'.syncTime = NoSync )
      => ( player'.seekTo = << player.syncTime.time >>
           <=> Abs(player.currentTime - player.syncTime.time)
                 > player.syncTime.tolerance ) ]_vars

\* C30: an event of a connection that is no participant of a room leaves
\* that room's queue, current item, playhead and isPlaying as they were;
\* so the play, pause, seek, video-ended and time-update of a connection
\* that was kicked from the room have no effect on it.
C30_OutsidersChangeNoPlayback ==
  [][ Handled
      => \A r \in DOMAIN rooms :
           ~HasParticipant(rooms[r], last'.sock)
           => /\ RoomExists(rooms', r)
              /\ rooms'[r].playlist = rooms[r].playlist
              /\ rooms'[r].currentVideo = rooms[r].currentVideo
              /\ rooms'[r].currentTime = rooms[r].currentTime
              /\ rooms'[r].isPlaying = rooms[r].isPlaying ]_vars

\* the state InitEnded starts from: two joins of room A and nothing more
TwoInRoomA ==
  /\ events = 2
  /\ connected = {"s1", "s2"} /\ closed = {}
  /\ currentRoom = [s \in Sockets |-> IF s \in {"s1", "s2"} THEN "A" ELSE Null]
  /\ subs = [s \in Sockets |-> IF s \in {"s1", "s2"} THEN {"A"} ELSE {}]
  /\ uuids = 0 /\ now = 0 /\ timers = << >>
  /\ rooms = addParticipantToRoom(
               addParticipantToRoom([r \in {} |-> NewRoom(0)],
                                    "A", "s1", NoUser, 0),
               "A", "s2", NoUser, 0)

\* C31: when a second participant reports video-ended at the very instant
\* the room has advanced on another participant's report (its report is for
\* the item that has just ended, not for the one that has just started),
\* the room does not advance again: the current item stays and the queue
\* keeps its entries.
C31_OneAdvancePerEndedItem ==
  [][ ( /\ Handled
        /\ last'.ev = "video-ended"
        /\ last.ev = "video-ended" /\ last.res = "ok"
        /\ last'.sock # last.sock
        /\ last'.from = last.from
        /\ RoomExists(rooms, last.from)
        /\ HasParticipant(rooms[last.from], last.sock)
        /\ HasParticipant(rooms[last.from], last'.sock)
        /\ rooms[last.from].lastUpdate = now
        /\ rooms[last.from].currentVideo # NullVideo )
      => /\ rooms'[last.from].currentVideo = rooms[last.from].currentVideo
         /\ rooms'[last.from].playlist = rooms[last.from].playlist ]_vars

\* C32: after every handled event the sockets in the broadcast group of a
\* room are the participants of that room (none when the room does not
\* exist), so a connection that was kicked is in the group no more.
C32_GroupIsParticipantSet ==
  \A r \in RoomIds :
    Group(subs, r) = IF RoomExists(rooms, r)
                     THEN ParticipantIds(rooms[r]) ELSE {}

\* C33: in every room the two records of the roles agree: a participant's
\* hasPlaylistPermission flag is set exactly when its id is in
\* playlistPermissions, its isOwner flag exactly when owner is its id, and
\* playlistPermissions holds ids of participants only.
C33_RolesConsistent ==
  \A r \in DOMAIN rooms :
    /\ \A i \in DOMAIN rooms[r].participants :
         LET p == rooms[r].participants[i]
         IN /\ p.hasPlaylistPermission <=> p.socketId \in rooms[r].playlistPermissions
            /\ p.isOwner <=> rooms[r].owner = p.socketId
    /\ rooms[r].playlistPermissions \subseteq ParticipantIds(rooms[r])

\* C34: every room that has participants has an owner, and the owner is one
\* of its participants: exactly one participant carries the isOwner flag.
C34_OccupiedRoomHasOwner ==
  \A r \in DOMAIN rooms :
    ParticipantCount(rooms[r]) > 0
    => /\ rooms[r].owner \in ParticipantIds(rooms[r])
       /\ Cardinality({i \in DOMAIN rooms[r].participants :
                         rooms[r].participants[i].isOwner}) = 1

\* C35: a room that has no current item has an empty queue.
C35_NoCurrentMeansEmptyQueue ==
  \A r \in DOMAIN rooms :
    rooms[r].currentVideo = NullVideo => rooms[r].playlist = << >>

\* a room whose items have all been played or skipped: entries were
\* queued, the last advance found the queue empty and nothing is current
C35_Witness ==
  \E r \in DOMAIN rooms :
    /\ last.ev \in {"video-ended", "skip-video"} /\ last.res = "ok"
    /\ last.room = r
    /\ uuids >= 1
    /\ rooms[r].currentVideo = NullVideo
    /\ rooms[r].playlist = << >>

\* C36: a sync-position that the timeout of a join delivers tells the room
\* as it is when it is emitted: its receiver is then a participant of a
\* room that is playing a current item, its time is the playhead Room.getState
\* computes at that moment and its isPlaying is the room's.
C36_InitialSyncReflectsEmissionTime ==
  [][ SyncTimeout
      => \A i \in DOMAIN out' :
           (out'[i].ev = "sync-position" /\ out'[i].to # {})
           => \E r \in DOMAIN rooms :
                /\ HasParticipant(rooms[r], Head(timers).socketId)
                /\ rooms[r].isPlaying
                /\ rooms[r].currentVideo # NullVideo
                /\ out'[i].data.isPlaying = rooms[r].isPlaying
                /\ out'[i].data.time = getState(rooms[r], now).currentTime ]_vars

\* C37: authenticatedUsers holds no entry for a connection whose disconnect
\* has been handled, whenever the verification of its token returns.
C37_NoIdentityAfterDisconnect ==
  \A s \in closed : s \notin DOMAIN authenticatedUsers

\* C38: a connection whose authenticate has succeeded is, in the room it is
\* a participant of, recorded under its verified identity: the username
\* and the id of its userInfo, whether it joined before or after the
\* verification returned.
C38_ParticipantCarriesVerifiedIdentity ==
  \A s \in DOMAIN authenticatedUsers :
    \A r \in DOMAIN rooms :
      HasParticipant(rooms[r], s)
      => /\ getParticipant(rooms[r], s).userId = authenticatedUsers[s].sub
         /\ getParticipant(rooms[r], s).username = authenticatedUsers[s].username

\* C39: the owner of a room changes only in a step that takes the owner
\* out of the room, which is a disconnect or a join-room sent by the owner
\* from that room; every other event, and every event of another
\* connection, leaves the owner of the room as it was.
C39_OwnerChangesOnlyWhenOwnerLeaves ==
  [][ \A r \in DOMAIN rooms \cap DOMAIN rooms' :
        rooms'[r].owner # rooms[r].owner
        => /\ Handled
           /\ last'.ev \in {"disconnect", "join-room"}
           /\ last'.sock = rooms[r].owner
           /\ last'.from = r ]_vars

\* the owner of a room has moved to another room and the room it left has
\* a new owner
C39_Witness ==
  /\ last.ev = "join-room"
  /\ last.from # Null /\ last.from # last.room
  /\ last.ownerBefore = last.sock
  /\ RoomExists(rooms, last.from)
  /\ rooms[last.from].owner # last.sock

\* the rooms a connection is a participant of
RoomsOf(s) == {r \in DOMAIN rooms : HasParticipant(rooms[r], s)}

\* C40: a connection is a participant of at most one room at any time, and
\* of none once its disconnect has been handled.
C40_AtMostOneRoomPerConnection ==
  \A s \in Sockets :
    /\ Cardinality(RoomsOf(s)) <= 1
    /\ s \in closed => RoomsOf(s) = {}

====
